---- MODULE Spec2Model ----
(***************************************************************************)
(* Attendance back end (bay-study-backend): commit handling                *)
(* (GitHubService.processCommit, DatabaseService.recordCommit), the        *)
(* window arithmetic (isCommitWithinStudyTime, calculateStudyDate), the    *)
(* closure scheduler (SchedulerService, DatabaseService.getStudiesToClose),*)
(* study creation (StudyController.createStudy) and membership             *)
(* (DatabaseService.registerParticipant, withdrawFromStudy).               *)
(*                                                                         *)
(* Time is in seconds since the Unix epoch (UTC).  A calendar date         *)
(* ('YYYY-MM-DD') is represented by its day number since 1970-01-01, so    *)
(* that formatting a date and parsing it back are the arithmetic the       *)
(* JavaScript Date functions perform.                                      *)
(***************************************************************************)
EXTENDS Integers, Sequences, FiniteSets, TLC

(***************************************************************************)
(* Program constants                                                       *)
(***************************************************************************)
Day == 86400

Hour == 3600

KstOffset == 9 * Hour

(***************************************************************************)
(* Bounds of the model                                                     *)
(***************************************************************************)
\* day number of the calendar date the scenarios are placed on (2024-05-01)
BaseDay == 19844

\* number of grid points per day from which window offsets are drawn
GridPerDay == 48

\* number of concurrent commit deliveries (processCommit invocations)
MaxProcs == 2

\* number of participants
NumUsers == 2

\* number of scheduler passes (cron ticks and manual triggers together)
MaxPasses == 2

\* number of deliveries one handler takes one after the other
MaxDeliveries == 2

\* number of study creation requests
MaxCreations == 2

\* number of membership requests (join, withdraw) handled concurrently
MaxSlots == 2

\* number of membership requests one slot takes one after the other
MaxRequests == 2

GridStep == Day \div GridPerDay

(***************************************************************************)
(* Reference notions of the specification (section 4.1), used by the       *)
(* properties only.                                                        *)
(***************************************************************************)
\* UTC instant of 00:00 local (KST) time of calendar date d
KstMidnightUtc(d) == d * Day - KstOffset

\* local (KST) calendar date of a UTC instant
KstDateOf(t) == (t + KstOffset) \div Day

WindowStartUtc(d, startOffset) == KstMidnightUtc(d) + startOffset

WindowEndUtc(d, endOffset) == KstMidnightUtc(d) + endOffset

InWindowOf(t, d, startOffset, endOffset) ==
    /\ WindowStartUtc(d, startOffset) <= t
    /\ t <= WindowEndUtc(d, endOffset)

CandidateDates(t) == {KstDateOf(t), KstDateOf(t) - 1}

ValidConfig(startOffset, endOffset) ==
    /\ 0 <= startOffset
    /\ startOffset < Day
    /\ startOffset < endOffset
    /\ endOffset < startOffset + Day

(***************************************************************************)
(* Window arithmetic of GitHubService                                      *)
(***************************************************************************)
\* Date.UTC(y, m, d, 15, 0, 0, 0) followed by setUTCDate(getUTCDate() - 1),
\* in seconds, for the calendar date with day number d
KoreanMidnightUTC(d) == (d * Day + 15 * Hour) - Day

isCommitWithinStudyTime(commitTimestamp, studyStartTime, studyEndTime) ==
    LET commitKST == commitTimestamp + 9 * 3600
        midnightTimestamp == KoreanMidnightUTC(commitKST \div Day)
        actualStartTime == midnightTimestamp + studyStartTime
        actualEndTime == midnightTimestamp + studyEndTime
    IN  IF studyEndTime > 24 * 60 * 60 \/ studyEndTime < studyStartTime
        THEN LET realEndTime == IF studyEndTime > 24 * 60 * 60
                                THEN studyEndTime - 24 * 60 * 60
                                ELSE studyEndTime
                 nextDayEndTime == midnightTimestamp + 24 * 60 * 60 + realEndTime
             IN  (commitTimestamp >= actualStartTime) \/ (commitTimestamp <= nextDayEndTime)
        ELSE commitTimestamp >= actualStartTime /\ commitTimestamp <= actualEndTime

calculateStudyDate(commitTimestamp, studyStartTime, studyEndTime) ==
    LET commitDateKST == commitTimestamp + 9 * 3600
        isOvernight == studyEndTime >= 86400
        commitHourKST == (commitDateKST % Day) \div 3600
        endHour == (studyEndTime % 86400) \div 3600
        targetDate == IF isOvernight /\ commitHourKST <= endHour
                      THEN (commitDateKST \div Day) - 1
                      ELSE commitDateKST \div Day
    IN  KoreanMidnightUTC(targetDate)

\* a variant that formats the UTC date of the midnight, without the 9 hours
UtcDateString(studyDate) == studyDate \div Day

\* new Date((studyDate + 9 * 3600) * 1000).toISOString().split('T')[0]
CommitDateString(studyDate) == (studyDate + 9 * 3600) \div Day

(***************************************************************************)
(* State                                                                   *)
(***************************************************************************)
VARIABLES
    now,            \* current UTC time (Date.now() / 1000)
    serverTz,       \* offset of the server's local time zone from UTC
    studies,        \* table studies: study id -> window config
    userStudies,    \* table user_studies: memberships with wallet
    commitRecords,  \* table commit_records, in insertion (id) order
    closedSessions, \* sessions no longer ACTIVE: [study_id, date, closed_at, status]
    proc,           \* per processCommit invocation: position and locals
    ledger,         \* calls issued to the remote ledger, in order
    sched,          \* the closure scheduler: position and locals
    win,            \* input and result of one window resolution
    repositories,   \* table repositories, in insertion (id) order
    balances,       \* table balances
    req             \* per membership request (join, withdraw): position and locals

vars == <<now, serverTz, studies, userStudies, commitRecords, closedSessions,
          proc, ledger, sched, win, repositories, balances, req>>

Procs == 1 .. MaxProcs

Users == 1 .. NumUsers

StudyIds == {1, 2}

\* the window configs of the two studies sharing the repository:
\* study 1 is 11:00-01:00 (overnight), study 2 is 09:00-18:00
StudyTable ==
    (1 :> [study_start_time |-> 39600, study_end_time |-> 90000]) @@
    (2 :> [study_start_time |-> 32400, study_end_time |-> 64800])

\* every user takes part in study 1; the last user does not take part in study 2
Memberships ==
    {[id |-> 2 * (u - 1) + s, user_id |-> u, study_id |-> s, wallet_address |-> u] :
        u \in Users, s \in StudyIds} \
    {[id |-> 2 * NumUsers, user_id |-> NumUsers, study_id |-> 2,
      wallet_address |-> NumUsers]}

\* local (KST) times of day, relative to 00:00 of BaseDay, of the commits delivered:
\* 10:00 (inside the window of study 2), 23:50, 00:40 next day, 02:00 next day
CommitOffsets == {36000, 85800, 88800, 93600}

CommitTimes == {KstMidnightUtc(BaseDay) + x : x \in CommitOffsets}

\* a commit event of the event source; the commit id is determined by author and time
CommitEvents == [author : Users, timestamp : CommitTimes]

\* the deliveries made while the scheduler runs: one author, a commit at 10:00
\* (accepted by both studies), one at 01:30 and one at 02:00 of the next day.
\* The time of a commit is the one its author's machine stamped: a delivery
\* may arrive before or after that time on the server's clock.
SchedCommitOffsets == {36000, 91800, 93600}

SchedCommitEvents ==
    [author : {1}, timestamp : {KstMidnightUtc(BaseDay) + x : x \in SchedCommitOffsets}]

\* instants at which the clock is observed, relative to 00:00 KST of BaseDay
NowOffsets == {39600, 90000, 90001, 2 * Day + 1}

NowPoints == {KstMidnightUtc(BaseDay) + x : x \in NowOffsets}

ServerTzOffsets == {0, KstOffset}

NoLocals ==
    [pc |-> "idle", commit |-> [author |-> 0, timestamp |-> 0], found |-> <<>>,
     i |-> 0, studyDate |-> 0, date |-> 0, isFirstStudyCommitToday |-> FALSE,
     out |-> <<>>, served |-> 0, walletAddress |-> 0]

IdleSched ==
    [pc |-> "idle", kind |-> "none", list |-> <<>>, i |-> 0, at |-> 0,
     passes |-> 0, seen |-> {}, failed |-> FALSE, closedStudies |-> <<>>]

NoWin ==
    [phase |-> "off", commit |-> 0, start |-> 0, end |-> 0,
     accepted |-> FALSE, studyDate |-> 0]

\* the rows of repositories: user 1 has registered repository 1 for both studies
RepositoryTable ==
    <<[study_id |-> 1, user_id |-> 1, repo_url |-> 1, is_active |-> TRUE],
      [study_id |-> 2, user_id |-> 1, repo_url |-> 1, is_active |-> TRUE]>>

Slots == 1 .. MaxSlots

NoRequest ==
    [pc |-> "idle", kind |-> "none", user |-> 0, study |-> 0, wallet |-> 0,
     found |-> {}, served |-> 0]

\* the state after start-up on a server whose local time zone is tz
Started(tz) ==
    /\ now = KstMidnightUtc(BaseDay) + 39600
    /\ serverTz = tz
    /\ studies = StudyTable
    /\ userStudies = Memberships
    /\ commitRecords = <<>>
    /\ closedSessions = {}
    /\ proc = [p \in Procs |-> NoLocals]
    /\ ledger = <<>>
    /\ sched = IdleSched
    /\ win = NoWin
    /\ repositories = RepositoryTable
    /\ balances = {}
    /\ req = [s \in Slots |-> NoRequest]

\* commit handling never reads the server's time zone
Init == Started(0)

\* the scan of the scheduler reads dates in the server's local time zone
InitSched == \E tz \in ServerTzOffsets : Started(tz)

(***************************************************************************)
(* Storage: lookups and constraints of DatabaseService and the entities    *)
(***************************************************************************)
\* repository 1 is registered for both studies, repository 0 for none
Repositories == {0, 1}

\* the rows of repositories with repo_url = repoUrl that are active
ActiveRows(repoUrl) ==
    SelectSeq(repositories, LAMBDA r : r.repo_url = repoUrl /\ r.is_active)

\* the studies registered for a repository, one per repositories row, in row
\* order
findStudiesByRepository(repositoryName) ==
    [k \in 1 .. Len(ActiveRows(repositoryName)) |-> ActiveRows(repositoryName)[k].study_id]

\* a variant in which every user is taken for a participant of every study
EveryoneParticipates(user, study) ==
    {[id |-> 0, user_id |-> user, study_id |-> study, wallet_address |-> user]}

\* the memberships of a user in a study (at most one row)
isUserParticipantInStudy(user, study) ==
    {m \in userStudies : m.user_id = user /\ m.study_id = study}

\* participation.walletAddress: getOne returns one row of the query, here the
\* one with the least id
WalletOf(participation) ==
    (CHOOSE m \in participation : \A n \in participation : m.id <= n.id).wallet_address

\* ethers.isAddress: wallet 0 stands for a malformed address
isValidAddress(wallet) == wallet # 0

SameKey(r, study, user, date) ==
    r.study_id = study /\ r.user_id = user /\ r.date = date

\* a lookup that never finds the record
FindsNothing(records, study, user, date) == {}

\* commitRecordRepository.findOne({study_id, user_id, date})
FindOneRecord(records, study, user, date) ==
    {k \in 1 .. Len(records) : SameKey(records[k], study, user, date)}

\* a variant of the count without the study in its where clause
CountAnyStudy(records, study, date) ==
    Cardinality({k \in 1 .. Len(records) : records[k].date = date})

\* commitRecordRepository.count({study_id, date})
CountRecords(records, study, date) ==
    Cardinality({k \in 1 .. Len(records) :
                    records[k].study_id = study /\ records[k].date = date})

\* a variant of the table without its unique index
NoUniqueIndex(records, rec) == FALSE

\* the unique index (study_id, user_id, date) of commit_records: an insert of
\* a second row with the same key fails
UniqueViolation(records, rec) ==
    \E k \in 1 .. Len(records) :
        SameKey(records[k], rec.study_id, rec.user_id, rec.date)

\* the sessions that have attendance: the (study_id, date) pairs of commit_records
SessionKeys(records) ==
    {[study_id |-> records[k].study_id, date |-> records[k].date] :
        k \in 1 .. Len(records)}

\* started_at of the session of a study and date: the time of the first
\* commit stored for the session
started_at(records, study, date) ==
    LET first == CHOOSE k \in 1 .. Len(records) :
                    /\ records[k].study_id = study /\ records[k].date = date
                    /\ \A j \in 1 .. (k - 1) :
                          ~(records[j].study_id = study /\ records[j].date = date)
    IN  records[first].commit_timestamp

IsClosed(study, date) ==
    \E c \in closedSessions :
        c.study_id = study /\ c.date = date /\ c.status = "CLOSED"

(***************************************************************************)
(* GitHubService.processCommit, one action per await                       *)
(***************************************************************************)
Outcome(kind, l, created, firstOfStudy, existed) ==
    [kind |-> kind, study_id |-> l.found[l.i], date |-> l.date,
     studyDate |-> l.studyDate, isFirstCommit |-> created,
     isFirstStudyCommitToday |-> firstOfStudy, existed |-> existed]

\* the for loop over the studies: next study, or return
Continue(l) ==
    IF l.i < Len(l.found)
    THEN [l EXCEPT !.pc = "participant", !.i = l.i + 1]
    ELSE [l EXCEPT !.pc = "done"]

LedgerCall(op, study, studyDate, wallet, commitTimestamp, result, p, at, date, wasClosed) ==
    [op |-> op, study_id |-> study, studyDate |-> studyDate, wallet |-> wallet,
     commitTimestamp |-> commitTimestamp, result |-> result, proc |-> p,
     at |-> at, date |-> date, wasClosed |-> wasClosed]

\* the positions in the ledger of the calls of one operation
LedgerCalls(op) == {k \in 1 .. Len(ledger) : ledger[k].op = op}

\* an order on commit events, used only to number the handlers
EventRank(ev) == ev.author * (4 * Day) + (ev.timestamp - KstMidnightUtc(BaseDay))

\* a delivery arrives; await findStudiesByRepository.  Handlers are
\* interchangeable, so they are numbered in the order of their events (in
\* whatever order the deliveries arrive).
ReceiveCommit(p, ev, repositoryName) ==
    /\ proc[p].pc = "idle"
    /\ \A q \in Procs \ {p} :
          proc[q].pc # "idle" =>
              IF q < p
              THEN EventRank(proc[q].commit) <= EventRank(ev)
              ELSE EventRank(ev) <= EventRank(proc[q].commit)
    /\ LET found == findStudiesByRepository(repositoryName)
       IN  proc' = [proc EXCEPT ![p] =
                [NoLocals EXCEPT !.pc = IF Len(found) = 0 THEN "done" ELSE "participant",
                                 !.commit = ev, !.found = found,
                                 !.i = IF Len(found) = 0 THEN 0 ELSE 1,
                                 !.served = proc[p].served + 1]]
    /\ UNCHANGED <<now, serverTz, studies, userStudies, commitRecords,
                   closedSessions, ledger, sched, win,
                   repositories, balances, req>>

\* a variant in which a commit that is not taken throws
DiscardWithError(l, kind) ==
    [l EXCEPT !.pc = "failed",
              !.out = Append(l.out, Outcome(kind, [l EXCEPT !.date = 0, !.studyDate = 0],
                                            FALSE, FALSE, FALSE))]

\* the commit is not taken for the study the loop is at: log and continue
Discard(l, kind) ==
    Continue([l EXCEPT !.out =
                Append(l.out, Outcome(kind, [l EXCEPT !.date = 0, !.studyDate = 0],
                                      FALSE, FALSE, FALSE))])

\* the date of an earlier revision of processCommit: the UTC date of the commit,
\* new Date(commitData.timestamp).toISOString().split('T')[0]
EarlierCommitDate(commitTimestamp, studyDate) == commitTimestamp \div Day

\* the date under which recordCommit is called: the study date as a Korean
\* calendar date
RecordDate(commitTimestamp, studyDate) == CommitDateString(studyDate)

\* await isUserParticipantInStudy, then the wallet and window checks and the
\* computation of the study date
CheckParticipant(p) ==
    /\ proc[p].pc = "participant"
    /\ LET l == proc[p]
           study == studies[l.found[l.i]]
           participation == isUserParticipantInStudy(l.commit.author, l.found[l.i])
           commitTimestamp == l.commit.timestamp
           studyDate == calculateStudyDate(commitTimestamp, study.study_start_time,
                                           study.study_end_time)
       IN  proc' = [proc EXCEPT ![p] =
                IF participation = {}
                THEN Discard(l, "notParticipant")
                ELSE IF ~isValidAddress(WalletOf(participation))
                THEN Discard(l, "invalidWallet")
                ELSE IF ~isCommitWithinStudyTime(commitTimestamp, study.study_start_time,
                                                 study.study_end_time)
                THEN Discard(l, "outside")
                ELSE [l EXCEPT !.pc = "findOne", !.studyDate = studyDate,
                               !.date = RecordDate(commitTimestamp, studyDate),
                               !.walletAddress = WalletOf(participation)]]
    /\ UNCHANGED <<now, serverTz, studies, userStudies, commitRecords,
                   closedSessions, ledger, sched, win,
                   repositories, balances, req>>

\* a variant that keeps the earliest commit of the day: the existing record
\* is overwritten when the commit delivered has an earlier timestamp
KeepEarliest(records, existingRecord, commit) ==
    [k \in 1 .. Len(records) |->
        IF k \in existingRecord /\ commit.timestamp < records[k].commit_timestamp
        THEN [records[k] EXCEPT !.commit_timestamp = commit.timestamp,
                                !.commit_id = commit]
        ELSE records[k]]

\* if (existingRecord) return {..., commitRecord: existingRecord}: the record
\* found is returned as it is and the table is not written
ReturnExisting(records, existingRecord, commit) == records

\* recordCommit: await commitRecordRepository.findOne
FindExisting(p) ==
    /\ proc[p].pc = "findOne"
    /\ LET l == proc[p]
           existingRecord == FindOneRecord(commitRecords, l.found[l.i],
                                           l.commit.author, l.date)
       IN  /\ proc' = [proc EXCEPT ![p] =
                    IF existingRecord # {}
                    THEN Continue([l EXCEPT !.out =
                            Append(l.out, Outcome("duplicate", l, FALSE, FALSE, TRUE))])
                    ELSE [l EXCEPT !.pc = "count"]]
           /\ commitRecords' = IF existingRecord # {}
                               THEN ReturnExisting(commitRecords, existingRecord, l.commit)
                               ELSE commitRecords
    /\ UNCHANGED <<now, serverTz, studies, userStudies,
                   closedSessions, ledger, sched, win,
                   repositories, balances, req>>

\* recordCommit: await commitRecordRepository.count
CountToday(p) ==
    /\ proc[p].pc = "count"
    /\ LET l == proc[p]
           todayStudyCommitCount == CountRecords(commitRecords, l.found[l.i], l.date)
       IN  proc' = [proc EXCEPT ![p] =
                [l EXCEPT !.pc = "save",
                          !.isFirstStudyCommitToday = (todayStudyCommitCount = 0)]]
    /\ UNCHANGED <<now, serverTz, studies, userStudies, commitRecords,
                   closedSessions, ledger, sched, win,
                   repositories, balances, req>>

\* a variant that goes to trackCommit without the session start
AfterSaveTrackOnly(isFirstStudyCommitToday) == "track"

\* if (commitRecord.isFirstStudyCommitToday) await startTodayStudy, and
\* trackCommit after it
AfterSave(isFirstStudyCommitToday) ==
    IF isFirstStudyCommitToday THEN "start" ELSE "track"

\* recordCommit: await commitRecordRepository.save; a violation of the unique
\* index is thrown through recordCommit and processCommit to the caller
SaveRecord(p) ==
    /\ proc[p].pc = "save"
    /\ LET l == proc[p]
           wallet == l.walletAddress
           commitRecord == [study_id |-> l.found[l.i], user_id |-> l.commit.author,
                            date |-> l.date, commit_timestamp |-> l.commit.timestamp,
                            commit_id |-> l.commit, wallet_address |-> wallet]
       IN  IF UniqueViolation(commitRecords, commitRecord)
           THEN /\ proc' = [proc EXCEPT ![p] =
                        [l EXCEPT !.pc = "failed",
                                  !.out = Append(l.out, Outcome("saveError", l, FALSE,
                                                    l.isFirstStudyCommitToday, FALSE))]]
                /\ UNCHANGED commitRecords
           ELSE /\ commitRecords' = Append(commitRecords, commitRecord)
                /\ proc' = [proc EXCEPT ![p] =
                        [l EXCEPT !.pc = AfterSave(l.isFirstStudyCommitToday),
                                  !.out = Append(l.out, Outcome("created", l, TRUE,
                                                    l.isFirstStudyCommitToday, FALSE))]]
    /\ UNCHANGED <<now, serverTz, studies, userStudies, closedSessions, ledger,
                   sched, win,
                   repositories, balances, req>>

\* a variant that rethrows every answer of the ledger other than success
AfterStartStrict(result) == IF result = "ok" THEN "track" ELSE "failed"

\* a variant that swallows every error of the session start
AfterStartLenient(result) == "track"

\* the catch around startTodayStudy: "Study for this day already exists" is
\* swallowed and the handler goes on to trackCommit, any other error is rethrown
AfterStart(result) == IF result = "error" THEN "failed" ELSE "track"

\* a variant that swallows an error of trackCommit and goes on
AfterTrackSwallow(result, l) == Continue(l)

\* trackCommit is awaited outside any inner try: its error leaves the loop
\* over the studies and is rethrown by processCommit
AfterTrack(result, l) ==
    IF result = "error" THEN [l EXCEPT !.pc = "failed"] ELSE Continue(l)

\* await blockchainService.startTodayStudy
StartTodayStudy(p, result) ==
    /\ proc[p].pc = "start"
    /\ LET l == proc[p]
       IN  /\ ledger' = Append(ledger, LedgerCall("startTodayStudy", l.found[l.i], l.studyDate,
                                   0, 0, result, p, 0, l.date,
                                   IsClosed(l.found[l.i], l.date)))
           /\ proc' = [proc EXCEPT ![p] =
                    [l EXCEPT !.pc = AfterStart(result)]]
    /\ UNCHANGED <<now, serverTz, studies, userStudies, commitRecords,
                   closedSessions, sched, win,
                   repositories, balances, req>>

\* await blockchainService.trackCommit; an error is rethrown
TrackCommit(p, result) ==
    /\ proc[p].pc = "track"
    /\ LET l == proc[p]
           wallet == l.walletAddress
       IN  /\ ledger' = Append(ledger, LedgerCall("trackCommit", l.found[l.i], l.studyDate,
                                   wallet, l.commit.timestamp, result, p, 0, l.date,
                                   IsClosed(l.found[l.i], l.date)))
           /\ proc' = [proc EXCEPT ![p] = AfterTrack(result, l)]
    /\ UNCHANGED <<now, serverTz, studies, userStudies, commitRecords,
                   closedSessions, sched, win,
                   repositories, balances, req>>

(***************************************************************************)
(* DatabaseService.getStudiesToClose                                       *)
(***************************************************************************)
\* new Date(recordDate + 'T00:00:00').getTime() / 1000: a date-time string
\* without offset is read in the server's local time zone
LocalMidnight(recordDate, tz) == recordDate * Day - tz

\* the end of the window as the scan computes it from the record's date
ActualEndTime(studyDate, study_end_time) ==
    IF study_end_time >= 86400
    THEN (studyDate + 86400) + (study_end_time % 86400)
    ELSE studyDate + study_end_time

\* the scan's test of one record against the clock shifted to KST
IsDue(nowKSTTimestamp, actualEndTime) == nowKSTTimestamp > actualEndTime

RECURSIVE StudiesToCloseFrom(_, _, _, _, _)
StudiesToCloseFrom(k, records, table, t, tz) ==
    IF k > Len(records)
    THEN <<>>
    ELSE LET nowKSTTimestamp == t + 9 * 60 * 60
             todayDate == nowKSTTimestamp \div Day
             yesterdayDate == (nowKSTTimestamp - Day) \div Day
             record == records[k]
             selected == record.date \in {todayDate, yesterdayDate}
             unique == \A j \in 1 .. (k - 1) :
                          ~(records[j].study_id = record.study_id /\
                            records[j].date = record.date)
             study == table[record.study_id]
             studyDate == LocalMidnight(record.date, tz)
             actualEndTime == ActualEndTime(studyDate, study.study_end_time)
             rest == StudiesToCloseFrom(k + 1, records, table, t, tz)
         IN  IF selected /\ unique /\ IsDue(nowKSTTimestamp, actualEndTime)
             THEN <<[proxyAddress |-> record.study_id, studyDate |-> studyDate,
                     studyEndTime |-> study.study_end_time, date |-> record.date]>> \o rest
             ELSE rest

getStudiesToClose(records, table, t, tz) == StudiesToCloseFrom(1, records, table, t, tz)

(***************************************************************************)
(* SchedulerService                                                        *)
(***************************************************************************)
BeginPass(kind) ==
    /\ sched.pc = "idle"
    /\ sched.passes < MaxPasses
    /\ LET studiesToClose == getStudiesToClose(commitRecords, studies, now, serverTz)
       IN  sched' = IF Len(studiesToClose) = 0
                    THEN [IdleSched EXCEPT !.passes = sched.passes + 1]
                    ELSE [pc |-> "close", kind |-> kind, list |-> studiesToClose,
                          i |-> 1, at |-> now, passes |-> sched.passes + 1,
                          seen |-> SessionKeys(commitRecords), failed |-> FALSE,
                          closedStudies |-> <<>>]
    /\ UNCHANGED <<now, serverTz, studies, userStudies, commitRecords,
                   closedSessions, proc, ledger, win,
                   repositories, balances, req>>

\* the hourly cron tick: await getStudiesToClose
HandleStudyClosures == BeginPass("cron")

\* the manual trigger: await getStudiesToClose
TriggerStudyClosures == BeginPass("manual")

\* a variant in which the pass ends at the entry it is at
AbortPass(s) == [IdleSched EXCEPT !.passes = s.passes]

\* the for loop over studiesToClose: next entry, or return; the manual
\* trigger returns its list closedStudies, which stays readable afterwards
NextToClose(s) ==
    IF s.i < Len(s.list)
    THEN [s EXCEPT !.pc = "close", !.i = s.i + 1]
    ELSE [IdleSched EXCEPT !.passes = s.passes, !.closedStudies = s.closedStudies]

\* closedStudies.push({studyName, proxyAddress, studyDate, status}) of the
\* manual trigger; the cron tick keeps no list
PushOutcome(s, e, status) ==
    IF s.kind = "manual"
    THEN [s EXCEPT !.closedStudies =
            Append(s.closedStudies, [proxyAddress |-> e.proxyAddress,
                                     studyDate |-> e.studyDate, date |-> e.date,
                                     status |-> status])]
    ELSE s

\* a variant of the catch block that gives the session up: it becomes FAILED
EscalateToFailed(closed, study, date, t) ==
    {c \in closed : ~(c.study_id = study /\ c.date = date)} \cup
    {[study_id |-> study, date |-> date, closed_at |-> t, status |-> "FAILED"]}

\* the catch block around closeStudy, of the cron tick and of the manual
\* trigger: the error is logged (or pushed to the list returned) and the
\* session store is not written
OnCloseError(closed, study, date, t) == closed

\* await blockchainService.closeStudy; an error is caught per entry.  Only the
\* cron tick goes on to mark the session.
CloseStudy(result) ==
    /\ sched.pc = "close"
    /\ LET e == sched.list[sched.i]
       IN  /\ ledger' = Append(ledger, LedgerCall("closeStudy", e.proxyAddress, e.studyDate,
                                   0, 0, result, 0, sched.at, e.date,
                                   IsClosed(e.proxyAddress, e.date)))
           /\ sched' = IF result = "error"
                       THEN NextToClose(PushOutcome([sched EXCEPT !.failed = TRUE], e, "failed"))
                       ELSE IF sched.kind = "cron"
                       THEN [sched EXCEPT !.pc = "mark"]
                       ELSE NextToClose(PushOutcome(sched, e, "closed"))
           /\ closedSessions' = IF result = "error"
                                THEN OnCloseError(closedSessions, e.proxyAddress, e.date, now)
                                ELSE closedSessions
    /\ UNCHANGED <<now, serverTz, studies, userStudies, commitRecords, proc, win,
                   repositories, balances, req>>

\* a variant that toggles the status: a CLOSED session is opened again
ReopenSession(closed, study, date, t) ==
    IF \E c \in closed : c.study_id = study /\ c.date = date
    THEN {c \in closed : ~(c.study_id = study /\ c.date = date)}
    ELSE closed \cup {[study_id |-> study, date |-> date, closed_at |-> t,
                        status |-> "CLOSED"]}

\* await databaseService.markStudySessionClosed(proxyAddress, studyDate): the
\* session of the scanned record becomes CLOSED with closed_at = now
markStudySessionClosed(closed, study, date, t) ==
    {c \in closed : ~(c.study_id = study /\ c.date = date)} \cup
    {[study_id |-> study, date |-> date, closed_at |-> t, status |-> "CLOSED"]}

MarkClosed ==
    /\ sched.pc = "mark"
    /\ LET e == sched.list[sched.i]
       IN  closedSessions' = markStudySessionClosed(closedSessions, e.proxyAddress, e.date, now)
    /\ sched' = NextToClose(sched)
    /\ UNCHANGED <<now, serverTz, studies, userStudies, commitRecords, proc,
                   ledger, win,
                   repositories, balances, req>>

\* the wall clock advances (observed between passes)
Tick ==
    /\ sched.pc = "idle"
    /\ \E t \in NowPoints : t > now /\ now' = t
    /\ UNCHANGED <<serverTz, studies, userStudies, commitRecords, closedSessions,
                   proc, ledger, sched, win,
                   repositories, balances, req>>

\* the handler has returned (or thrown) to the webhook controller, which
\* takes the next delivery
Return(p) ==
    /\ proc[p].pc \in {"done", "failed"}
    /\ proc[p].served < MaxDeliveries
    /\ proc' = [proc EXCEPT ![p] = [NoLocals EXCEPT !.served = proc[p].served]]
    /\ UNCHANGED <<now, serverTz, studies, userStudies, commitRecords,
                   closedSessions, ledger, sched, win,
                   repositories, balances, req>>

\* commit handling: MaxProcs deliveries handled concurrently.  processCommit
\* reads nothing that the scheduler writes, so the scheduler is left out here;
\* the tables of memberships and repositories stay as they are (SpecRejoin
\* and SpecWithdraw change them).
Next ==
    \/ \E p \in Procs, ev \in CommitEvents, repositoryName \in Repositories :
          ReceiveCommit(p, ev, repositoryName)
    \/ \E p \in Procs : CheckParticipant(p)
    \/ \E p \in Procs : FindExisting(p)
    \/ \E p \in Procs : CountToday(p)
    \/ \E p \in Procs : SaveRecord(p)
    \/ \E p \in Procs, result \in {"ok", "already", "error"} : StartTodayStudy(p, result)
    \/ \E p \in Procs, result \in {"ok", "error"} : TrackCommit(p, result)

Spec == Init /\ [][Next]_vars

\* commit handling with the deliveries handled one after the other: the
\* webhook controller awaits processCommit for each commit of a payload
NextSeq ==
    \/ \E ev \in CommitEvents, repositoryName \in Repositories :
          ReceiveCommit(1, ev, repositoryName)
    \/ CheckParticipant(1)
    \/ FindExisting(1)
    \/ CountToday(1)
    \/ SaveRecord(1)
    \/ \E result \in {"ok", "already", "error"} : StartTodayStudy(1, result)
    \/ \E result \in {"ok", "error"} : TrackCommit(1, result)
    \/ Return(1)

SpecSeq == Init /\ [][NextSeq]_vars

\* the closure scheduler against the clock, with deliveries handled one after
\* the other by one handler.  The scheduler reads commit_records only, which
\* stand whatever the ledger answers to commit handling, so here the ledger
\* calls of commit handling succeed (Spec explores their failures).
NextSched ==
    \/ \E ev \in SchedCommitEvents : ReceiveCommit(1, ev, 1)
    \/ CheckParticipant(1)
    \/ FindExisting(1)
    \/ CountToday(1)
    \/ SaveRecord(1)
    \/ StartTodayStudy(1, "ok")
    \/ TrackCommit(1, "ok")
    \/ Return(1)
    \/ HandleStudyClosures
    \/ TriggerStudyClosures
    \/ \E result \in {"ok", "error"} : CloseStudy(result)
    \/ MarkClosed
    \/ Tick

SpecSched == InitSched /\ [][NextSched]_vars

\* late deliveries: both participants commit at 23:50, inside the window of
\* study 1, and a delivery may arrive after the cron tick that follows the end
\* of the window
LateCommitEvents ==
    [author : Users, timestamp : {KstMidnightUtc(BaseDay) + 85800}]

\* the cron tick against the clock, with the deliveries of both participants
\* handled one after the other by one handler
NextLate ==
    \/ \E ev \in LateCommitEvents : ReceiveCommit(1, ev, 1)
    \/ CheckParticipant(1)
    \/ FindExisting(1)
    \/ CountToday(1)
    \/ SaveRecord(1)
    \/ \E result \in {"ok", "already", "error"} : StartTodayStudy(1, result)
    \/ \E result \in {"ok", "error"} : TrackCommit(1, result)
    \/ Return(1)
    \/ HandleStudyClosures
    \/ \E result \in {"ok", "error"} : CloseStudy(result)
    \/ MarkClosed
    \/ Tick

SpecLate == InitSched /\ [][NextLate]_vars

(***************************************************************************)
(* The window resolver on its own: every valid window config on the grid   *)
(* and every commit time on the grid or at a boundary of the window        *)
(***************************************************************************)
GridOffsets == {g * GridStep : g \in 0 .. (GridPerDay - 1)}

WinConfigs ==
    {c \in [start : GridOffsets,
            end : {g * GridStep : g \in 1 .. (2 * GridPerDay - 1)}] :
        ValidConfig(c.start, c.end)}

\* commit times as offsets from 00:00 KST of BaseDay: the grid over two days
\* and the seconds around both ends of the window
WinCommitOffsets(c) ==
    {g * GridStep : g \in 0 .. (2 * GridPerDay)} \cup
    {c.start - 1, c.start, c.start + 1, c.end - 1, c.end, c.end + 1}

InitWin ==
    /\ now = KstMidnightUtc(BaseDay) + 39600
    /\ serverTz = 0
    /\ studies = StudyTable
    /\ userStudies = Memberships
    /\ commitRecords = <<>>
    /\ closedSessions = {}
    /\ proc = [p \in Procs |-> NoLocals]
    /\ ledger = <<>>
    /\ sched = IdleSched
    /\ repositories = RepositoryTable
    /\ balances = {}
    /\ req = [s \in Slots |-> NoRequest]
    /\ \E c \in WinConfigs : \E x \in WinCommitOffsets(c) :
          win = [phase |-> "input", commit |-> KstMidnightUtc(BaseDay) + x,
                 start |-> c.start, end |-> c.end, accepted |-> FALSE, studyDate |-> 0]

\* the window check and date computation of processCommit for one commit
Resolve ==
    /\ win.phase = "input"
    /\ win' = [win EXCEPT
                !.phase = "resolved",
                !.accepted = isCommitWithinStudyTime(win.commit, win.start, win.end),
                !.studyDate = calculateStudyDate(win.commit, win.start, win.end)]
    /\ UNCHANGED <<now, serverTz, studies, userStudies, commitRecords,
                   closedSessions, proc, ledger, sched,
                   repositories, balances, req>>

NextWin == Resolve

SpecWin == InitWin /\ [][NextWin]_vars

(***************************************************************************)
(* Study creation: StudyController.createStudy, FactoryService and         *)
(* DatabaseService.createStudy                                             *)
(***************************************************************************)
\* the window configs offered in the request body (CreateStudyDto): start
\* before midnight, at 00:00 and 11:00, at and after 24:00; end from 00:00 to
\* 36:00
CreateStudyDtos ==
    [studyStartTime : {0 - Hour, 0, 39600, Day, Day + Hour},
     studyEndTime : {0, 39600, 64800, 90000, 39600 + Day, 36 * Hour}]

\* the addresses the factory contract answers with
NewProxies == {3, 4}

\* the arguments are encoded as uint256 (FactoryABI): a negative number makes
\* the call throw before it is sent
EncodesAsUint256(n) == n >= 0

\* studyRepository.findOne({proxy_address}) followed by create and save: an
\* existing row is returned as it is, a new row takes the config of the request
createStudy(table, proxyAddress, studyStartTime, studyEndTime) ==
    IF proxyAddress \in DOMAIN table
    THEN table
    ELSE table @@ (proxyAddress :> [study_start_time |-> studyStartTime,
                                    study_end_time |-> studyEndTime])

\* POST /study/create: await createStudyProxy (the contract deployment on the
\* ledger, which answers with an address or fails), then await
\* databaseService.createStudy; an error of the first is caught and answered
\* with success: false
CreateStudy(createStudyDto, proxyAddress, result) ==
    /\ Cardinality(LedgerCalls("createProxy")) < MaxCreations
    /\ (result = "ok") => /\ EncodesAsUint256(createStudyDto.studyStartTime)
                          /\ EncodesAsUint256(createStudyDto.studyEndTime)
    /\ ledger' = Append(ledger, LedgerCall("createProxy", proxyAddress, 0, 0, 0,
                                           result, 0, now, 0, FALSE))
    /\ studies' = IF result = "ok"
                  THEN createStudy(studies, proxyAddress, createStudyDto.studyStartTime,
                                   createStudyDto.studyEndTime)
                  ELSE studies
    /\ UNCHANGED <<now, serverTz, userStudies, commitRecords, closedSessions,
                   proc, sched, win,
                   repositories, balances, req>>

NextStudy ==
    \E createStudyDto \in CreateStudyDtos, proxyAddress \in NewProxies,
       result \in {"ok", "error"} :
        CreateStudy(createStudyDto, proxyAddress, result)

SpecStudy == Init /\ [][NextStudy]_vars

(***************************************************************************)
(* Membership: DatabaseService.registerParticipant, withdrawFromStudy and  *)
(* updateBalance, one action per await that reads or writes a table        *)
(***************************************************************************)
\* the proxy addresses of join and withdraw requests: the two studies and one
\* address for which no study exists
RequestedStudies == {1, 2, 3}

\* the wallet addresses a join request of a user may carry
WalletsOf(user) == {user, 10 + user}

\* userStudyRepository.findOne({user_id, study_id})
FindUserStudy(table, user, study) ==
    {m \in table : m.user_id = user /\ m.study_id = study}

\* the generated primary key of a new row of user_studies
NextUserStudyId(table) ==
    IF table = {} THEN 1
    ELSE 1 + (CHOOSE n \in {m.id : m \in table} : \A m \in table : m.id <= n)

\* registerParticipant and withdrawFromStudy begin: await
\* userRepository.findOne (the user exists or is created), then await
\* studyRepository.findOne, which throws when there is no study of the address
BeginRequest(s, kind, user, study, wallet) ==
    /\ req[s].pc = "idle"
    /\ req[s].served < MaxRequests
    /\ req' = [req EXCEPT ![s] =
            [NoRequest EXCEPT !.pc = IF study \in DOMAIN studies THEN "findOne" ELSE "failed",
                              !.kind = kind, !.user = user, !.study = study,
                              !.wallet = wallet, !.served = req[s].served + 1]]
    /\ UNCHANGED <<now, serverTz, studies, userStudies, commitRecords, closedSessions,
                   proc, ledger, sched, win, repositories, balances>>

\* POST /study/join
JoinStudy(s, user, study, wallet) == BeginRequest(s, "join", user, study, wallet)

\* POST /study/withdraw
WithdrawFromStudy(s, user, study) == BeginRequest(s, "withdraw", user, study, 0)

\* registerParticipant: await userStudyRepository.findOne; an existing
\* membership makes the call return without a write
FindExistingUserStudy(s) ==
    /\ req[s].pc = "findOne"
    /\ req[s].kind = "join"
    /\ LET existingUserStudy == FindUserStudy(userStudies, req[s].user, req[s].study)
       IN  req' = [req EXCEPT ![s].pc = IF existingUserStudy # {} THEN "done" ELSE "save",
                               ![s].found = existingUserStudy]
    /\ UNCHANGED <<now, serverTz, studies, userStudies, commitRecords, closedSessions,
                   proc, ledger, sched, win, repositories, balances>>

\* registerParticipant: await userStudyRepository.save(userStudy); user_studies
\* has no unique index, so the insert always succeeds
SaveUserStudy(s) ==
    /\ req[s].pc = "save"
    /\ userStudies' = userStudies \cup
            {[id |-> NextUserStudyId(userStudies), user_id |-> req[s].user,
              study_id |-> req[s].study, wallet_address |-> req[s].wallet]}
    /\ req' = [req EXCEPT ![s].pc = "done"]
    /\ UNCHANGED <<now, serverTz, studies, commitRecords, closedSessions,
                   proc, ledger, sched, win, repositories, balances>>

\* withdrawFromStudy: await userStudyRepository.findOne, which returns one
\* row of the user in the study; without one the call throws
FindUserStudyToRemove(s) ==
    /\ req[s].pc = "findOne"
    /\ req[s].kind = "withdraw"
    /\ LET rows == FindUserStudy(userStudies, req[s].user, req[s].study)
       IN  IF rows = {}
           THEN req' = [req EXCEPT ![s].pc = "failed"]
           ELSE \E userStudy \in rows :
                    req' = [req EXCEPT ![s].pc = "remove", ![s].found = {userStudy}]
    /\ UNCHANGED <<now, serverTz, studies, userStudies, commitRecords, closedSessions,
                   proc, ledger, sched, win, repositories, balances>>

\* withdrawFromStudy: await userStudyRepository.remove(userStudy)
RemoveUserStudy(s) ==
    /\ req[s].pc = "remove"
    /\ userStudies' = userStudies \ req[s].found
    /\ req' = [req EXCEPT ![s].pc = "deleteRepositories"]
    /\ UNCHANGED <<now, serverTz, studies, commitRecords, closedSessions,
                   proc, ledger, sched, win, repositories, balances>>

\* withdrawFromStudy: await repositoryRepository.delete({user_id, study_id})
DeleteRepositories(s) ==
    /\ req[s].pc = "deleteRepositories"
    /\ repositories' = SelectSeq(repositories,
            LAMBDA r : ~(r.user_id = req[s].user /\ r.study_id = req[s].study))
    /\ req' = [req EXCEPT ![s].pc = "deleteCommitRecords"]
    /\ UNCHANGED <<now, serverTz, studies, userStudies, commitRecords, closedSessions,
                   proc, ledger, sched, win, balances>>

\* a variant of the delete without the study in its criteria
DeleteRecordsOfUser(records, study, user) ==
    SelectSeq(records, LAMBDA r : r.user_id # user)

\* commitRecordRepository.delete({study_id, user_id})
DeleteRecords(records, study, user) ==
    SelectSeq(records, LAMBDA r : ~(r.study_id = study /\ r.user_id = user))

\* withdrawFromStudy: await commitRecordRepository.delete
DeleteCommitRecords(s) ==
    /\ req[s].pc = "deleteCommitRecords"
    /\ commitRecords' = DeleteRecords(commitRecords, req[s].study, req[s].user)
    /\ req' = [req EXCEPT ![s].pc = "deleteBalances"]
    /\ UNCHANGED <<now, serverTz, studies, userStudies, closedSessions,
                   proc, ledger, sched, win, repositories, balances>>

\* withdrawFromStudy: await balanceRepository.delete({study_id, user_id})
DeleteBalances(s) ==
    /\ req[s].pc = "deleteBalances"
    /\ balances' = {b \in balances :
                        ~(b.study_id = req[s].study /\ b.user_id = req[s].user)}
    /\ req' = [req EXCEPT ![s].pc = "done"]
    /\ UNCHANGED <<now, serverTz, studies, userStudies, commitRecords, closedSessions,
                   proc, ledger, sched, win, repositories>>

\* the controller has answered the request (success, or success: false with
\* the message of the error) and takes the next one
Answer(s) ==
    /\ req[s].pc \in {"done", "failed"}
    /\ req[s].served < MaxRequests
    /\ req' = [req EXCEPT ![s] = [NoRequest EXCEPT !.served = req[s].served]]
    /\ UNCHANGED <<now, serverTz, studies, userStudies, commitRecords, closedSessions,
                   proc, ledger, sched, win, repositories, balances>>

\* updateBalance: the balance row of (user, study) is updated, or created
\* when there is none
updateBalance(table, userId, studyId, walletAddress, currentBalance) ==
    {b \in table : ~(b.user_id = userId /\ b.study_id = studyId)} \cup
    {[user_id |-> userId, study_id |-> studyId, wallet_address |-> walletAddress,
      current_balance |-> currentBalance]}

UpdateBalance(userId, studyId) ==
    /\ balances' = updateBalance(balances, userId, studyId, userId, 10)
    /\ UNCHANGED <<now, serverTz, studies, userStudies, commitRecords, closedSessions,
                   proc, ledger, sched, win, repositories, req>>

\* the steps of the join and withdraw requests of slot s
RequestStep(s) ==
    \/ \E user \in Users, study \in RequestedStudies :
          \E wallet \in WalletsOf(user) : JoinStudy(s, user, study, wallet)
    \/ \E user \in Users, study \in RequestedStudies : WithdrawFromStudy(s, user, study)
    \/ FindExistingUserStudy(s)
    \/ SaveUserStudy(s)
    \/ FindUserStudyToRemove(s)
    \/ RemoveUserStudy(s)
    \/ DeleteRepositories(s)
    \/ DeleteCommitRecords(s)
    \/ DeleteBalances(s)
    \/ Answer(s)

\* join and withdraw requests handled concurrently
NextMember ==
    \E s \in Slots : RequestStep(s)

SpecMember == Init /\ [][NextMember]_vars

\* the commits delivered while participants leave and join again: at 12:00 and
\* at 13:00, inside the windows of both studies
RejoinCommitEvents ==
    [author : Users, timestamp : {KstMidnightUtc(BaseDay) + x : x \in {43200, 46800}}]

\* commit handling by one handler, with join and withdraw requests handled
\* one after the other
NextRejoin ==
    \/ \E ev \in RejoinCommitEvents : ReceiveCommit(1, ev, 1)
    \/ CheckParticipant(1)
    \/ FindExisting(1)
    \/ CountToday(1)
    \/ SaveRecord(1)
    \/ \E result \in {"ok", "already"} : StartTodayStudy(1, result)
    \/ TrackCommit(1, "ok")
    \/ Return(1)
    \/ RequestStep(1)

SpecRejoin == Init /\ [][NextRejoin]_vars

\* the commits delivered before a withdrawal: both participants at 12:00
WithdrawCommitEvents ==
    [author : Users, timestamp : {KstMidnightUtc(BaseDay) + 43200}]

\* withdrawals, one after the other, from tables that commit handling and
\* updateBalance have filled
NextWithdraw ==
    \/ \E ev \in WithdrawCommitEvents : ReceiveCommit(1, ev, 1)
    \/ CheckParticipant(1)
    \/ FindExisting(1)
    \/ CountToday(1)
    \/ SaveRecord(1)
    \/ StartTodayStudy(1, "ok")
    \/ TrackCommit(1, "ok")
    \/ Return(1)
    \/ \E userId \in Users, studyId \in StudyIds : UpdateBalance(userId, studyId)
    \/ \E user \in Users, study \in RequestedStudies : WithdrawFromStudy(1, user, study)
    \/ FindUserStudyToRemove(1)
    \/ RemoveUserStudy(1)
    \/ DeleteRepositories(1)
    \/ DeleteCommitRecords(1)
    \/ DeleteBalances(1)
    \/ Answer(1)

SpecWithdraw == Init /\ [][NextWithdraw]_vars

(***************************************************************************)
(* Properties of the window resolver (SpecWin)                             *)
(***************************************************************************)
\* the calendar dates a commit of the resolver's input range can belong to
WinDates == (BaseDay - 1) .. (BaseDay + 3)

\* C6: a commit is accepted if and only if one of its two candidate dates
\* (its local date, the previous local date) has
\* midnightUtc + startOffset <= commitUtc <= midnightUtc + endOffset.
C6_AcceptedIffInsideCandidateWindow ==
    win.phase = "resolved" =>
        (win.accepted <=>
            \E d \in CandidateDates(win.commit) :
                InWindowOf(win.commit, d, win.start, win.end))

\* C7: for a window that ends by local midnight (end <= 86400), a commit at
\* local time exactly S or exactly E is accepted, and one at S-1 or E+1 is
\* rejected.
C7_NonOvernightBoundsInclusive ==
    (win.phase = "resolved" /\ win.end <= Day) =>
        \A d \in WinDates :
            /\ win.commit \in {KstMidnightUtc(d) + win.start,
                               KstMidnightUtc(d) + win.end} => win.accepted
            /\ win.commit \in {KstMidnightUtc(d) + win.start - 1,
                               KstMidnightUtc(d) + win.end + 1} => ~win.accepted

\* C8: for an overnight window (end > 86400), a commit inside the window
\* occurrence that started on calendar date d resolves to d, at every time of
\* the occurrence.
C8_OvernightResolvesToStartDate ==
    (win.phase = "resolved" /\ win.end > Day) =>
        \A d \in WinDates :
            InWindowOf(win.commit, d, win.start, win.end) =>
                /\ win.studyDate = KstMidnightUtc(d)
                /\ CommitDateString(win.studyDate) = d

(***************************************************************************)
(* Properties of commit handling (Spec)                                    *)
(***************************************************************************)
\* the outcomes of recordCommit that handler p has seen so far
Outcomes(p) == {proc[p].out[a] : a \in 1 .. Len(proc[p].out)}

\* the outcomes, over all handlers, with their handler and author
AllOutcomes ==
    UNION {{[proc |-> p, author |-> proc[p].commit.author, o |-> o] : o \in Outcomes(p)} :
            p \in Procs}

\* C1: for every (session, participant) the ledger record-attendance call
\* (trackCommit) is issued at most once, over redeliveries and concurrent
\* deliveries alike.
C1_TrackCommitAtMostOnce ==
    \A j, k \in LedgerCalls("trackCommit") :
        (/\ ledger[j].study_id = ledger[k].study_id
         /\ ledger[j].studyDate = ledger[k].studyDate
         /\ ledger[j].wallet = ledger[k].wallet) => j = k

\* two deliveries of one participant into one session raced: one was recorded
\* and tracked on the ledger, the other lost the insert
C1_Witness ==
    \E x, y \in AllOutcomes :
        /\ x.proc # y.proc
        /\ x.author = y.author
        /\ x.o.study_id = y.o.study_id /\ x.o.date = y.o.date
        /\ x.o.kind = "created" /\ y.o.kind = "saveError"
        /\ \E k \in LedgerCalls("trackCommit") :
              /\ ledger[k].proc = x.proc
              /\ ledger[k].study_id = x.o.study_id
              /\ ledger[k].studyDate = x.o.studyDate

\* C2: of the first commits of two participants into one session, exactly one
\* is told isFirstStudyCommitToday, so exactly one requests the session start.
C2_ExactlyOneFirstOfSession ==
    \A x \in AllOutcomes :
        x.o.kind = "created" =>
            Cardinality({y \in AllOutcomes :
                            /\ y.o.kind = "created"
                            /\ y.o.study_id = x.o.study_id
                            /\ y.o.date = x.o.date
                            /\ y.o.isFirstStudyCommitToday}) = 1

\* an earlier call of recordCommit for the key handler q is at has returned
\* isFirstCommit = true
PriorCreated(q) ==
    \E x \in AllOutcomes :
        /\ x.proc # q
        /\ x.author = proc[q].commit.author
        /\ x.o.kind = "created"
        /\ x.o.study_id = proc[q].found[proc[q].i]
        /\ x.o.date = proc[q].date

LastOutcome(l) == l.out[Len(l.out)]

\* the step in which recordCommit of handler q returns from its findOne or
\* goes on to count
ReturnsFromFindOne(q) == proc[q].pc = "findOne" /\ proc'[q] # proc[q]

\* every ledger call of commit handling follows an isFirstCommit = true of
\* the same handler for the same session
LedgerCallsFollowCreation ==
    \A k \in LedgerCalls("startTodayStudy") \cup LedgerCalls("trackCommit") :
        \E o \in Outcomes(ledger[k].proc) :
            /\ o.kind = "created"
            /\ o.study_id = ledger[k].study_id
            /\ o.studyDate = ledger[k].studyDate

\* C3: a call of recordCommit made after an earlier call with the same
\* session key and participant returned isFirstCommit = true returns
\* isFirstCommit = false, adds no record, and the handler issues no ledger
\* call for it; the earlier call, finding no record, had created one.
C3_SecondCallIsDuplicate ==
    /\ [][\A q \in Procs :
            (ReturnsFromFindOne(q) /\ PriorCreated(q)) =>
                /\ Len(proc'[q].out) = Len(proc[q].out) + 1
                /\ LastOutcome(proc'[q]).kind = "duplicate"
                /\ ~LastOutcome(proc'[q]).isFirstCommit
                /\ proc'[q].pc \in {"participant", "done"}
                /\ commitRecords' = commitRecords
                /\ ledger' = ledger]_vars
    /\ [](\A x \in AllOutcomes :
            x.o.kind = "created" =>
                /\ x.o.isFirstCommit
                /\ \E k \in 1 .. Len(commitRecords) :
                      SameKey(commitRecords[k], x.o.study_id, x.author, x.o.date))
    /\ []LedgerCallsFollowCreation

\* a second call for the same key has returned isFirstCommit = false after
\* the first had created the record
C3_Witness ==
    \E x, y \in AllOutcomes :
        /\ x.proc # y.proc
        /\ x.author = y.author
        /\ x.o.study_id = y.o.study_id /\ x.o.date = y.o.date
        /\ x.o.kind = "created" /\ y.o.kind = "duplicate"
        /\ proc[y.proc].pc = "done"

\* C4: at most one attendance record per (session, participant), and a
\* duplicate delivery is a no-op that is never surfaced as an error, also
\* when it races with the first insert.
C4_DuplicateIsNeverAnError ==
    /\ \A j, k \in 1 .. Len(commitRecords) :
          SameKey(commitRecords[j], commitRecords[k].study_id,
                  commitRecords[k].user_id, commitRecords[k].date) => j = k
    /\ \A x \in AllOutcomes : x.o.kind # "saveError"

\* C5: one session per (study, calendar date): every commit of a study is
\* stored under the calendar date its study date resolves to, and the ledger
\* is addressed with one midnight value per stored date.
C5_OneSessionPerStudyAndDate ==
    /\ \A x \in AllOutcomes :
          x.o.kind \in {"created", "duplicate", "saveError"} =>
              /\ x.o.date = KstDateOf(x.o.studyDate)
              /\ x.o.studyDate = KstMidnightUtc(x.o.date)
    /\ \A k \in LedgerCalls("startTodayStudy") \cup LedgerCalls("trackCommit") :
          ledger[k].date = KstDateOf(ledger[k].studyDate)
    /\ \A j, k \in LedgerCalls("startTodayStudy") \cup LedgerCalls("trackCommit") :
          ledger[j].study_id = ledger[k].study_id =>
              (ledger[j].date = ledger[k].date <=> ledger[j].studyDate = ledger[k].studyDate)

\* two commits made at different times (before and after local midnight) by
\* different participants are stored in the same session
C5_Witness ==
    \E j, k \in 1 .. Len(commitRecords) :
        /\ commitRecords[j].study_id = commitRecords[k].study_id
        /\ commitRecords[j].date = commitRecords[k].date
        /\ commitRecords[j].user_id # commitRecords[k].user_id
        /\ KstDateOf(commitRecords[j].commit_timestamp) #
           KstDateOf(commitRecords[k].commit_timestamp)
        /\ Cardinality(LedgerCalls("trackCommit")) = 2

(***************************************************************************)
(* Properties of the closure scheduler (SpecSched)                         *)
(***************************************************************************)
\* the end of the window of a session: session midnight + study end offset
SessionWindowEnd(study, date) == WindowEndUtc(date, studies[study].study_end_time)

\* the step in which a cron pass that began at time t, with the sessions seen
\* having attendance, returns; ok tells that no ledger call of it failed
CronPassReturns(t, seen, ok) ==
    \/ /\ sched.pc = "idle"
       /\ sched'.pc = "idle"
       /\ sched'.passes = sched.passes + 1
       /\ t = now /\ seen = SessionKeys(commitRecords) /\ ok
    \/ /\ sched.pc \in {"close", "mark"}
       /\ sched.kind = "cron"
       /\ sched'.pc = "idle"
       /\ t = sched.at /\ seen = sched.seen
       /\ ok = (~sched.failed /\ sched.pc = "mark")

IsClosedNext(study, date) ==
    \E c \in closedSessions' :
        c.study_id = study /\ c.date = date /\ c.status = "CLOSED"

\* C9: no pass calls the ledger close operation for, or changes, a session
\* whose window end is >= the current time; a pass run at any time strictly
\* after the window end, the ledger succeeding, leaves the session CLOSED.
C9_ClosedExactlyAfterWindowEnd ==
    /\ [](\A k \in LedgerCalls("closeStudy") :
            SessionWindowEnd(ledger[k].study_id, ledger[k].date) < ledger[k].at)
    /\ [](\A c \in closedSessions :
            SessionWindowEnd(c.study_id, c.date) < c.closed_at)
    /\ [][\A t \in NowPoints, ok \in BOOLEAN :
            \A seen \in {SessionKeys(commitRecords), sched.seen} :
                (CronPassReturns(t, seen, ok) /\ ok) =>
                    \A s \in seen :
                        SessionWindowEnd(s.study_id, s.date) < t =>
                            IsClosedNext(s.study_id, s.date)]_vars

\* C10: the ledger close call succeeds at most once per session and is never
\* issued for a session that is already CLOSED.
C10_NoCloseAfterClosed ==
    /\ \A k \in LedgerCalls("closeStudy") : ~ledger[k].wasClosed
    /\ \A j, k \in LedgerCalls("closeStudy") :
          (/\ ledger[j].study_id = ledger[k].study_id
           /\ ledger[j].date = ledger[k].date
           /\ ledger[j].result = "ok"
           /\ ledger[k].result = "ok") => j = k

\* C11: session status is monotonic: a session is created ACTIVE, a CLOSED
\* session stays CLOSED under every operation, only sessions with attendance
\* are ever CLOSED, and commit handling never changes a status.
C11_StatusMonotonic ==
    /\ [][\A c \in closedSessions : IsClosedNext(c.study_id, c.date)]_vars
    /\ [][\A s \in SessionKeys(commitRecords') \ SessionKeys(commitRecords) :
            ~IsClosedNext(s.study_id, s.date)]_vars
    /\ [][proc' # proc => closedSessions' = closedSessions]_vars
    /\ [](\A c \in closedSessions :
            [study_id |-> c.study_id, date |-> c.date] \in SessionKeys(commitRecords))

\* a CLOSED session was handled again by a later pass and by a later commit:
\* the ledger was called for it after it was CLOSED, and its participant has
\* delivered again
C11_Witness ==
    \E c \in closedSessions :
        /\ \E k \in LedgerCalls("closeStudy") :
              /\ ledger[k].wasClosed
              /\ ledger[k].study_id = c.study_id /\ ledger[k].date = c.date
        /\ \E o \in Outcomes(1) :
              o.kind = "duplicate" /\ o.study_id = c.study_id /\ o.date = c.date

\* the entry of the pass the scheduler is at
CurrentEntry == sched.list[sched.i]

\* the answer of the ledger to the call issued in this step
LastResult == ledger'[Len(ledger')].result

\* the step in which the scheduler's closeStudy call returns or throws
ClosesNow ==
    /\ sched.pc = "close"
    /\ Len(ledger') = Len(ledger) + 1
    /\ ledger'[Len(ledger')].op = "closeStudy"

\* the pass goes on with its next entry, or returns after its last
PassGoesOn ==
    IF sched.i < Len(sched.list)
    THEN sched'.pc = "close" /\ sched'.i = sched.i + 1 /\ sched'.list = sched.list
    ELSE sched'.pc = "idle"

\* C12: in a pass over several due sessions a failed ledger close leaves the
\* status of that session as it is and the pass goes on with the next entry;
\* an entry whose ledger close succeeds in a cron pass is CLOSED before the
\* pass goes on.
C12_CloseFailureIsIsolated ==
    /\ [][(ClosesNow /\ LastResult = "error") =>
            (closedSessions' = closedSessions /\ PassGoesOn)]_vars
    /\ [][(ClosesNow /\ LastResult = "ok" /\ sched.kind = "cron") =>
            (sched'.pc = "mark" /\ sched'.i = sched.i /\ sched'.list = sched.list)]_vars
    /\ [][(sched.pc = "mark" /\ sched' # sched) =>
            (IsClosedNext(CurrentEntry.proxyAddress, CurrentEntry.date) /\ PassGoesOn)]_vars

\* one pass found two due sessions: the ledger close of the first failed and
\* it stayed ACTIVE, the second was closed
C12_Witness ==
    \E j, k \in LedgerCalls("closeStudy") :
        /\ k = j + 1
        /\ ledger[j].at = ledger[k].at
        /\ ledger[j].result = "error" /\ ledger[k].result = "ok"
        /\ ledger[j].study_id # ledger[k].study_id
        /\ ~IsClosed(ledger[j].study_id, ledger[j].date)
        /\ IsClosed(ledger[k].study_id, ledger[k].date)
        /\ sched.pc = "idle"

\* the session of an entry of the pass that begins in this step
Selected(s) ==
    \E a \in 1 .. Len(sched'.list) :
        sched'.list[a].proxyAddress = s.study_id /\ sched'.list[a].date = s.date

\* C13: every scheduler pass that begins while a session is ACTIVE and past
\* its window end attempts its closure, however long ago the window ended (so
\* that a failed closure is retried without limit).
C13_OverdueSessionIsRetried ==
    [][(sched.pc = "idle" /\ sched'.passes = sched.passes + 1) =>
        \A s \in SessionKeys(commitRecords) :
            (SessionWindowEnd(s.study_id, s.date) < now /\ ~IsClosed(s.study_id, s.date))
                => Selected(s)]_vars

\* C20: a successful ledger close leaves the session CLOSED with closedAt =
\* now when the pass has moved on, and the terminal fields of a session are
\* written once.
C20_ClosedOnceOnSuccess ==
    /\ [](sched.pc # "mark" =>
            \A k \in LedgerCalls("closeStudy") :
                ledger[k].result = "ok" => IsClosed(ledger[k].study_id, ledger[k].date))
    /\ [][\A c \in closedSessions' \ closedSessions :
            c.closed_at = now /\ ~IsClosed(c.study_id, c.date)]_vars

(***************************************************************************)
(* Error handling and frame of commit handling (Spec)                      *)
(***************************************************************************)
\* the ledger calls handler p has issued for a study
CallsOf(p, study) ==
    {k \in 1 .. Len(ledger) : ledger[k].proc = p /\ ledger[k].study_id = study}

\* the step in which the ledger call handler p awaits returns or throws
LedgerAnswers(p, pc) ==
    /\ proc[p].pc = pc
    /\ proc'[p] # proc[p]
    /\ Len(ledger') = Len(ledger) + 1

\* the attendance record that handler p's commit created for a study
RecordOf(p, study) ==
    {r \in 1 .. Len(commitRecords) :
        /\ commitRecords[r].study_id = study
        /\ commitRecords[r].user_id = proc[p].commit.author
        /\ commitRecords[r].commit_id = proc[p].commit}

\* C14: when startTodayStudy answers 'already started', no error is raised
\* and the trackCommit call for the commit is still issued.
C14_AlreadyStartedIsSuccess ==
    /\ [][\A p \in Procs :
            (LedgerAnswers(p, "start") /\ LastResult = "already") =>
                (proc'[p].pc = "track" /\ proc'[p].i = proc[p].i)]_vars
    /\ [](\A k \in LedgerCalls("startTodayStudy") :
            ledger[k].result = "already" =>
                \/ /\ proc[ledger[k].proc].pc = "track"
                   /\ proc[ledger[k].proc].found[proc[ledger[k].proc].i] = ledger[k].study_id
                \/ \E j \in LedgerCalls("trackCommit") :
                      /\ j > k
                      /\ ledger[j].proc = ledger[k].proc
                      /\ ledger[j].study_id = ledger[k].study_id
                      /\ ledger[j].studyDate = ledger[k].studyDate
                      /\ ledger[j].commitTimestamp = proc[ledger[k].proc].commit.timestamp)

\* a handler was answered 'already started', tracked its commit and returned
C14_Witness ==
    \E k \in LedgerCalls("startTodayStudy"), j \in LedgerCalls("trackCommit") :
        /\ ledger[k].result = "already"
        /\ ledger[j].proc = ledger[k].proc
        /\ ledger[j].study_id = ledger[k].study_id
        /\ ledger[j].result = "ok"
        /\ proc[ledger[k].proc].pc = "done"

\* C15: when startTodayStudy fails with another error, the handler has thrown,
\* the attendance record of the commit is still there and no trackCommit call
\* was issued for the commit.
C15_StartErrorIsRaised ==
    \A k \in LedgerCalls("startTodayStudy") :
        ledger[k].result = "error" =>
            /\ proc[ledger[k].proc].pc = "failed"
            /\ \E r \in RecordOf(ledger[k].proc, ledger[k].study_id) :
                  commitRecords[r].date = ledger[k].date
            /\ \A j \in CallsOf(ledger[k].proc, ledger[k].study_id) :
                  ledger[j].op # "trackCommit"

\* a session start failed for the first commit of a session
C15_Witness ==
    \E k \in LedgerCalls("startTodayStudy") :
        /\ ledger[k].result = "error"
        /\ proc[ledger[k].proc].pc = "failed"
        /\ Len(commitRecords) > 0

\* the ledger calls of commit handling that failed
FailedCalls ==
    {k \in LedgerCalls("startTodayStudy") \cup LedgerCalls("trackCommit") :
        ledger[k].result = "error"}

\* a ledger call failed for the key handler q is at, in another handler
PriorFailed(q) ==
    \E k \in FailedCalls :
        /\ ledger[k].proc # q
        /\ proc[ledger[k].proc].commit.author = proc[q].commit.author
        /\ ledger[k].study_id = proc[q].found[proc[q].i]
        /\ ledger[k].date = proc[q].date

\* C16: after a ledger call failed for a created attendance record, the
\* handler has thrown, the record stands, no other trackCommit is ever issued
\* for that participant and session, no other delivery of the participant
\* issues a ledger call for the session, and a later call of recordCommit for
\* the key is a duplicate.
C16_FailedLedgerCallIsNeverRetried ==
    /\ [](\A k \in FailedCalls :
            /\ proc[ledger[k].proc].pc = "failed"
            /\ \E r \in RecordOf(ledger[k].proc, ledger[k].study_id) :
                  commitRecords[r].date = ledger[k].date
            /\ \A j \in LedgerCalls("trackCommit") \ {k} :
                  ~(/\ ledger[j].study_id = ledger[k].study_id
                    /\ ledger[j].studyDate = ledger[k].studyDate
                    /\ ledger[j].wallet = proc[ledger[k].proc].commit.author)
            /\ \A q \in Procs \ {ledger[k].proc} :
                  proc[q].commit.author = proc[ledger[k].proc].commit.author =>
                      \A j \in CallsOf(q, ledger[k].study_id) :
                          ledger[j].studyDate # ledger[k].studyDate)
    /\ [][\A q \in Procs :
            (ReturnsFromFindOne(q) /\ PriorFailed(q)) =>
                /\ LastOutcome(proc'[q]).kind = "duplicate"
                /\ proc'[q].pc \in {"participant", "done"}
                /\ commitRecords' = commitRecords
                /\ ledger' = ledger]_vars

\* a ledger call failed, and a later delivery of the same participant for the
\* same session returned as a duplicate without a ledger call
C16_Witness ==
    \E k \in FailedCalls, q \in Procs :
        /\ q # ledger[k].proc
        /\ proc[q].commit.author = proc[ledger[k].proc].commit.author
        /\ proc[q].pc = "done"
        /\ \E o \in Outcomes(q) :
              /\ o.kind = "duplicate"
              /\ o.study_id = ledger[k].study_id
              /\ o.date = ledger[k].date
        /\ CallsOf(q, ledger[k].study_id) = {}

\* the step in which handler p gets the outcome kind for the study it is at
Decides(p, kind) ==
    /\ proc[p].pc = "participant"
    /\ Len(proc'[p].out) = Len(proc[p].out) + 1
    /\ LastOutcome(proc'[p]).kind = kind

\* C17: a commit that the window check rejects is discarded without error:
\* the step changes no record, no session and issues no ledger call, the
\* handler goes on, and nothing of the commit exists for that study.
C17_RejectedCommitIsDiscarded ==
    /\ [][\A p \in Procs :
            Decides(p, "outside") =>
                /\ commitRecords' = commitRecords
                /\ ledger' = ledger
                /\ closedSessions' = closedSessions
                /\ proc'[p].pc \in {"participant", "done"}]_vars
    /\ [](\A p \in Procs : \A o \in Outcomes(p) :
            o.kind = "outside" =>
                (RecordOf(p, o.study_id) = {} /\ CallsOf(p, o.study_id) = {}))

\* a commit was rejected by the window of one study after it had been
\* recorded for another, and the handler returned
C17_Witness ==
    \E p \in Procs :
        /\ proc[p].pc = "done"
        /\ \E o \in Outcomes(p) : o.kind = "outside"
        /\ \E o \in Outcomes(p) : o.kind = "created"

\* the author of handler p's commit has no membership row for the study
NoMembership(p, study) ==
    ~\E m \in userStudies : m.user_id = proc[p].commit.author /\ m.study_id = study

\* C18: a commit whose author has no membership in a study of the repository,
\* or whose repository is registered for no study, is discarded without
\* error: no attendance record, no ledger call, and the handler goes on.
C18_NonMemberIsDiscarded ==
    /\ [](\A p \in Procs : \A a \in 1 .. Len(proc[p].found) :
            NoMembership(p, proc[p].found[a]) =>
                /\ \A r \in 1 .. Len(commitRecords) :
                      ~(commitRecords[r].study_id = proc[p].found[a] /\
                        commitRecords[r].user_id = proc[p].commit.author)
                /\ CallsOf(p, proc[p].found[a]) = {}
                /\ \A o \in Outcomes(p) :
                      o.study_id = proc[p].found[a] => o.kind = "notParticipant"
                /\ ~(proc[p].pc = "failed" /\ proc[p].i = a))
    /\ [](\A p \in Procs :
            (proc[p].pc # "idle" /\ proc[p].found = <<>>) =>
                (proc[p].pc = "done" /\ proc[p].out = <<>>
                 /\ \A k \in 1 .. Len(ledger) : ledger[k].proc # p))
    /\ [][\A p \in Procs :
            (Decides(p, "notParticipant") \/ (proc[p].pc = "idle" /\ proc'[p].found = <<>>
                                             /\ proc'[p] # proc[p])) =>
                (commitRecords' = commitRecords /\ ledger' = ledger
                 /\ proc'[p].pc \in {"participant", "done"})]_vars

\* one handler has returned from a commit of a non-member of study 2 made
\* inside its window, another from a commit of an unregistered repository
C18_Witness ==
    \E p, q \in Procs :
        /\ proc[p].pc = "done"
        /\ \E o \in Outcomes(p) : o.kind = "notParticipant"
        /\ isCommitWithinStudyTime(proc[p].commit.timestamp,
                                   studies[2].study_start_time, studies[2].study_end_time)
        /\ proc[q].pc = "done" /\ proc[q].found = <<>>

\* C19: an error while a commit is handled for one study does not prevent its
\* handling for the other studies of the repository: when the handler has
\* finished, every study that has the author as a member and accepts the
\* commit time has an attendance record of the author.
C19_ErrorIsIsolated ==
    \A p \in Procs :
        proc[p].pc \in {"done", "failed"} =>
            \A a \in 1 .. Len(proc[p].found) :
                (/\ ~NoMembership(p, proc[p].found[a])
                 /\ isCommitWithinStudyTime(proc[p].commit.timestamp,
                        studies[proc[p].found[a]].study_start_time,
                        studies[proc[p].found[a]].study_end_time)) =>
                    \E r \in 1 .. Len(commitRecords) :
                        /\ commitRecords[r].study_id = proc[p].found[a]
                        /\ commitRecords[r].user_id = proc[p].commit.author

(***************************************************************************)
(* The manual trigger against the cron tick (SpecSched)                    *)
(***************************************************************************)
\* the step in which a manual pass over a non-empty list returns
ManualPassReturns ==
    /\ sched.pc = "close"
    /\ sched.kind = "manual"
    /\ sched'.pc = "idle"

\* C21: the manual trigger does what the cron tick does: it scans the same
\* sessions, and when it returns it has one outcome per scanned session,
\* 'closed' or 'failed' as the ledger answered, and every session whose
\* ledger close succeeded is CLOSED in the session store.
C21_ManualTriggerActsAsTick ==
    /\ [][(sched.pc = "idle" /\ sched'.passes = sched.passes + 1 /\ sched'.pc = "close") =>
            sched'.list = getStudiesToClose(commitRecords, studies, now, serverTz)]_vars
    /\ [][ManualPassReturns =>
            /\ Len(sched'.closedStudies) = Len(sched.list)
            /\ \A a \in 1 .. Len(sched.list) :
                  /\ sched'.closedStudies[a].proxyAddress = sched.list[a].proxyAddress
                  /\ sched'.closedStudies[a].studyDate = sched.list[a].studyDate
                  /\ sched'.closedStudies[a].status \in {"closed", "failed"}
                  /\ sched'.closedStudies[a].status = "closed" =>
                        IsClosedNext(sched.list[a].proxyAddress, sched.list[a].date)]_vars

(***************************************************************************)
(* Properties of study creation (SpecStudy)                                *)
(***************************************************************************)
\* a window config that study creation is to accept
AcceptableConfig(startOffset, endOffset) ==
    /\ 0 <= startOffset
    /\ startOffset < Day
    /\ endOffset > startOffset
    /\ endOffset <= startOffset + Day

\* C22: no study whose window config violates 0 <= start < 86400,
\* end > start or end <= start + 86400 is ever stored.
C22_OnlyAcceptableConfigsAreStored ==
    \A id \in DOMAIN studies :
        AcceptableConfig(studies[id].study_start_time, studies[id].study_end_time)

(***************************************************************************)
(* The date basis of the scheduler against commit handling (SpecSched)     *)
(***************************************************************************)
\* the ledger calls commit handling has issued for a session
SessionCalls(study, date) ==
    {j \in LedgerCalls("startTodayStudy") \cup LedgerCalls("trackCommit") :
        ledger[j].study_id = study /\ ledger[j].date = date}

\* C23: the midnight value of every ledger close call equals the midnight
\* value commit handling passed to the ledger for the same session, which is
\* the UTC instant of the session date's local midnight.
C23_CloseUsesMidnightOfStart ==
    \A k \in LedgerCalls("closeStudy") :
        /\ ledger[k].studyDate = KstMidnightUtc(ledger[k].date)
        /\ \A j \in SessionCalls(ledger[k].study_id, ledger[k].date) :
              ledger[j].studyDate = ledger[k].studyDate

\* the scan of the pass that begins now reads the records of session s
ScanReads(s) == s.date \in {KstDateOf(now), KstDateOf(now) - 1}

\* C24: a pass selects a session it reads exactly when now is after session
\* midnight + end offset, the window end of the window calculator, for the
\* overnight study and the other alike.
C24_WindowEndIsMidnightPlusEndOffset ==
    [][(sched.pc = "idle" /\ sched'.passes = sched.passes + 1) =>
        \A s \in SessionKeys(commitRecords) :
            ScanReads(s) =>
                (Selected(s) <=> now > SessionWindowEnd(s.study_id, s.date))]_vars

(***************************************************************************)
(* The midnight value of the ledger calls of commit handling (Spec)        *)
(***************************************************************************)
\* the attendance records that ledger call k was issued for: the record of
\* the handler's commit in the study of the call
RecordsBehind(k) ==
    {r \in 1 .. Len(commitRecords) :
        /\ commitRecords[r].study_id = ledger[k].study_id
        /\ commitRecords[r].commit_id = proc[ledger[k].proc].commit}

\* C25: every ledger call of commit handling is issued for a stored
\* attendance record and carries the UTC instant of local midnight of the
\* calendar date that record is stored under; so all calls for one session
\* carry one midnight value.
C25_LedgerMidnightIsThatOfStoredDate ==
    /\ \A k \in LedgerCalls("startTodayStudy") \cup LedgerCalls("trackCommit") :
          /\ RecordsBehind(k) # {}
          /\ \A r \in RecordsBehind(k) :
                ledger[k].studyDate = KstMidnightUtc(commitRecords[r].date)
    /\ \A j, k \in LedgerCalls("startTodayStudy") \cup LedgerCalls("trackCommit") :
          (\E q \in RecordsBehind(j), r \in RecordsBehind(k) :
                /\ commitRecords[q].study_id = commitRecords[r].study_id
                /\ commitRecords[q].date = commitRecords[r].date)
            => ledger[j].studyDate = ledger[k].studyDate

\* a session was started on the ledger and two participants were tracked in
\* it, one with a commit before local midnight and one with a commit after
\* it, all three calls with the midnight of the stored date
C25_Witness ==
    \E s \in LedgerCalls("startTodayStudy") :
        \E j, k \in LedgerCalls("trackCommit") :
            /\ ledger[j].study_id = ledger[s].study_id
            /\ ledger[k].study_id = ledger[s].study_id
            /\ ledger[j].studyDate = ledger[s].studyDate
            /\ ledger[k].studyDate = ledger[s].studyDate
            /\ ledger[j].wallet # ledger[k].wallet
            /\ KstDateOf(ledger[j].commitTimestamp) = KstDateOf(ledger[s].studyDate)
            /\ KstDateOf(ledger[k].commitTimestamp) = KstDateOf(ledger[s].studyDate) + 1
            /\ \E r \in RecordsBehind(k) :
                  commitRecords[r].date = KstDateOf(ledger[s].studyDate)

(***************************************************************************)
(* recordCommit called sequentially (SpecSeq)                              *)
(***************************************************************************)
\* the step in which recordCommit of handler p returns to processCommit
RecordCommitReturns(p) ==
    /\ proc[p].pc \in {"findOne", "save"}
    /\ Len(proc'[p].out) = Len(proc[p].out) + 1

\* the records of a session, by position in insertion order
RecordsOfSession(records, study, date) ==
    {k \in 1 .. Len(records) : records[k].study_id = study /\ records[k].date = date}

\* C26: called sequentially, recordCommit reports isFirstStudyCommitToday =
\* true exactly when it created a record and the session had no record of any
\* participant before the call; the record that reported true is the first
\* of its session.
C26_FirstOfSessionIffNoneBefore ==
    [][RecordCommitReturns(1) =>
        LET o == LastOutcome(proc'[1])
        IN  /\ o.isFirstStudyCommitToday <=>
                  (/\ o.isFirstCommit
                   /\ RecordsOfSession(commitRecords, o.study_id, o.date) = {})
            /\ o.isFirstCommit =>
                  /\ Len(commitRecords') = Len(commitRecords) + 1
                  /\ (o.isFirstStudyCommitToday <=>
                        \A k \in RecordsOfSession(commitRecords', o.study_id, o.date) :
                            k = Len(commitRecords'))]_vars

\* a second participant has been recorded in a session after the first: the
\* first call had reported true and the session was started on the ledger,
\* the second call created its record and reported false
C26_Witness ==
    /\ proc[1].pc = "track"
    /\ LET o == LastOutcome(proc[1])
       IN  /\ o.kind = "created"
           /\ ~o.isFirstStudyCommitToday
           /\ Cardinality(RecordsOfSession(commitRecords, o.study_id, o.date)) = 2
           /\ \E k \in LedgerCalls("startTodayStudy") :
                 /\ ledger[k].study_id = o.study_id /\ ledger[k].date = o.date
                 /\ ledger[k].result = "ok"

(***************************************************************************)
(* Attendance records are written once (Spec)                              *)
(***************************************************************************)
\* the rows of commit_records with the key of row r
RowsOfKey(records, r) ==
    {records[k] : k \in {j \in 1 .. Len(records) :
                            SameKey(records[j], r.study_id, r.user_id, r.date)}}

\* C27: an attendance record is written once: no step changes or removes a
\* stored row or adds a second row for its key, whatever is delivered
\* afterwards, and the commit a row holds is the commit of the handler that
\* created it.
C27_RecordIsNeverUpdated ==
    /\ [][\A k \in 1 .. Len(commitRecords) :
            /\ k <= Len(commitRecords')
            /\ commitRecords'[k] = commitRecords[k]
            /\ RowsOfKey(commitRecords', commitRecords[k]) = {commitRecords[k]}]_vars
    /\ [](\A k \in 1 .. Len(commitRecords) :
            \E x \in AllOutcomes :
                /\ x.o.kind = "created"
                /\ SameKey(commitRecords[k], x.o.study_id, x.author, x.o.date)
                /\ commitRecords[k].commit_id = proc[x.proc].commit
                /\ commitRecords[k].commit_timestamp = proc[x.proc].commit.timestamp)

\* the later of two commits of a participant was processed first and is
\* stored; the earlier one, delivered after it into the same session, came
\* back as a duplicate and the stored row still holds the later commit
C27_Witness ==
    \E x, y \in AllOutcomes :
        /\ x.proc # y.proc
        /\ x.author = y.author
        /\ x.o.study_id = y.o.study_id /\ x.o.date = y.o.date
        /\ x.o.kind = "created" /\ y.o.kind = "duplicate"
        /\ proc[y.proc].commit.timestamp < proc[x.proc].commit.timestamp
        /\ \E k \in 1 .. Len(commitRecords) :
              /\ SameKey(commitRecords[k], x.o.study_id, x.author, x.o.date)
              /\ commitRecords[k].commit_timestamp = proc[x.proc].commit.timestamp

(***************************************************************************)
(* No escalation of a closure failure (SpecSched)                          *)
(***************************************************************************)
\* the ledger close calls issued for a session
CloseCalls(study, date) ==
    {k \in LedgerCalls("closeStudy") :
        ledger[k].study_id = study /\ ledger[k].date = date}

\* C28: no session is ever FAILED: every session the store holds a status
\* for is CLOSED, and a session all of whose ledger closes have failed has no
\* terminal status (it is ACTIVE), however often its closure failed.
C28_NeverFailed ==
    /\ \A c \in closedSessions : c.status = "CLOSED"
    /\ \A s \in SessionKeys(commitRecords) :
          (\A k \in CloseCalls(s.study_id, s.date) : ledger[k].result = "error") =>
              ~\E c \in closedSessions : c.study_id = s.study_id /\ c.date = s.date

\* the closure of one session has failed in two passes run at different
\* times, the later of them a manual trigger, and the session is ACTIVE
C28_Witness ==
    \E s \in SessionKeys(commitRecords) :
        /\ \E j, k \in CloseCalls(s.study_id, s.date) :
              /\ ledger[j].at < ledger[k].at
              /\ ledger[j].result = "error" /\ ledger[k].result = "error"
        /\ \A k \in CloseCalls(s.study_id, s.date) : ledger[k].result = "error"
        /\ ~\E c \in closedSessions : c.study_id = s.study_id /\ c.date = s.date
        /\ sched.pc = "idle"
        /\ sched.closedStudies # <<>>

(***************************************************************************)
(* Order of the insert and the ledger calls in one run of processCommit    *)
(* (Spec)                                                                  *)
(***************************************************************************)
\* recordCommit told handler p that its commit is the first of the session
\* of a study
ToldFirstOfSession(p, study) ==
    \E o \in Outcomes(p) :
        o.kind = "created" /\ o.study_id = study /\ o.isFirstStudyCommitToday

\* C29: a handler issues a ledger call only when the record of its commit is
\* stored; a handler told that its commit is the first of the session issues
\* trackCommit only after its startTodayStudy has answered ok or 'already
\* started', and a handler not told so issues no startTodayStudy.
C29_LedgerCallsFollowInsertAndStart ==
    /\ [][\A p \in Procs :
            (LedgerAnswers(p, "start") \/ LedgerAnswers(p, "track")) =>
                RecordOf(p, proc[p].found[proc[p].i]) # {}]_vars
    /\ [](\A k \in LedgerCalls("trackCommit") :
            ToldFirstOfSession(ledger[k].proc, ledger[k].study_id) =>
                \E j \in CallsOf(ledger[k].proc, ledger[k].study_id) :
                    /\ j < k
                    /\ ledger[j].op = "startTodayStudy"
                    /\ ledger[j].result \in {"ok", "already"})
    /\ [](\A k \in LedgerCalls("startTodayStudy") :
            ToldFirstOfSession(ledger[k].proc, ledger[k].study_id))

\* one handler was told first of the session, started the session and then
\* tracked its commit; another, not told so, tracked its commit in the same
\* session without a start
C29_Witness ==
    \E p, q \in Procs :
        \E j \in LedgerCalls("startTodayStudy") :
            \E k, m \in LedgerCalls("trackCommit") :
                /\ p # q
                /\ ledger[j].proc = p /\ ledger[k].proc = p /\ ledger[m].proc = q
                /\ j < k
                /\ ledger[j].result = "ok"
                /\ ledger[k].study_id = ledger[j].study_id
                /\ ledger[m].study_id = ledger[j].study_id
                /\ ledger[m].studyDate = ledger[j].studyDate
                /\ ~ToldFirstOfSession(q, ledger[m].study_id)
                /\ \A c \in CallsOf(q, ledger[m].study_id) : ledger[c].op = "trackCommit"

(***************************************************************************)
(* Order of the times of a session (SpecSched)                             *)
(***************************************************************************)
\* C30: a session that has started_at and closed_at set has started_at <=
\* closed_at, in whatever order commits and passes arrive.
C30_StartedBeforeClosed ==
    \A c \in closedSessions :
        started_at(commitRecords, c.study_id, c.date) <= c.closed_at

(***************************************************************************)
(* Order of the ledger calls of concurrent handlers (Spec)                 *)
(***************************************************************************)
\* the session start calls for a session that have completed with success
\* or with 'already started'
StartsCompleted(study, studyDate) ==
    {j \in LedgerCalls("startTodayStudy") :
        /\ ledger[j].study_id = study
        /\ ledger[j].studyDate = studyDate
        /\ ledger[j].result \in {"ok", "already"}}

\* handler q awaits the session start of the session handler p is at
StartPending(q, p) ==
    /\ proc[q].pc = "start"
    /\ proc[q].found[proc[q].i] = proc[p].found[proc[p].i]
    /\ proc[q].studyDate = proc[p].studyDate

\* C31: no trackCommit call for a session is issued before a startTodayStudy
\* call for that session has completed (ok or already started): the
\* trackCommit of a participant who is not the first of the session never
\* overtakes the session start that the first participant still awaits.
C31_TrackNeverOvertakesStart ==
    /\ [](\A k \in LedgerCalls("trackCommit") :
            \E j \in StartsCompleted(ledger[k].study_id, ledger[k].studyDate) : j < k)
    /\ [][\A p \in Procs :
            LedgerAnswers(p, "track") =>
                \A q \in Procs \ {p} : ~StartPending(q, p)]_vars

(***************************************************************************)
(* Late deliveries into a closed session (SpecLate)                        *)
(***************************************************************************)
\* the rows the step appends to commit_records
NewRecords ==
    {commitRecords'[k] : k \in (Len(commitRecords) + 1) .. Len(commitRecords')}

\* the commit time lies inside the window of the session of a study and date
InsideSessionWindow(t, study, date) ==
    InWindowOf(t, date, studies[study].study_start_time, studies[study].study_end_time)

\* C32: once a session is CLOSED, a commit delivered late whose timestamp
\* lies inside the window of that session creates no attendance record for
\* it, and no startTodayStudy or trackCommit call is issued for it.
C32_NoAttendanceAfterClose ==
    /\ [][\A r \in NewRecords :
            InsideSessionWindow(r.commit_timestamp, r.study_id, r.date) =>
                ~IsClosed(r.study_id, r.date)]_vars
    /\ [](\A k \in LedgerCalls("startTodayStudy") \cup LedgerCalls("trackCommit") :
            ~ledger[k].wasClosed)

(***************************************************************************)
(* Ledger calls over withdrawal and re-joining (SpecRejoin)                *)
(***************************************************************************)
\* the user a wallet address of a join request belongs to
WalletOwner(wallet) == wallet % 10

\* C33: over any sequence of commit deliveries and withdrawals,
\* startTodayStudy is requested at most once per (study, calendar date) and
\* trackCommit at most once per (study, calendar date, participant), also
\* when a participant withdraws, joins again and commits again in the session.
C33_LedgerCallsOnceOverWithdrawal ==
    /\ \A j, k \in LedgerCalls("startTodayStudy") :
          (/\ ledger[j].study_id = ledger[k].study_id
           /\ ledger[j].date = ledger[k].date) => j = k
    /\ \A j, k \in LedgerCalls("trackCommit") :
          (/\ ledger[j].study_id = ledger[k].study_id
           /\ ledger[j].date = ledger[k].date
           /\ WalletOwner(ledger[j].wallet) = WalletOwner(ledger[k].wallet)) => j = k

(***************************************************************************)
(* One repository registered for several studies (Spec)                    *)
(***************************************************************************)
\* the author of handler p's commit is a participant of the study with a
\* valid wallet, and the window of the study accepts the commit time
Eligible(p, study) ==
    /\ \E m \in userStudies :
          /\ m.user_id = proc[p].commit.author
          /\ m.study_id = study
          /\ isValidAddress(m.wallet_address)
    /\ isCommitWithinStudyTime(proc[p].commit.timestamp,
                                studies[study].study_start_time,
                                studies[study].study_end_time)

\* the author of handler p's commit has an attendance record for the study
Attended(p, study) ==
    \E r \in 1 .. Len(commitRecords) :
        /\ commitRecords[r].study_id = study
        /\ commitRecords[r].user_id = proc[p].commit.author

\* the handler has finished with the commit
Finished(p) == proc[p].pc \in {"done", "failed"}

\* C34: a commit to a repository registered for several studies is evaluated
\* for each study on its own: when the handler has finished, the commit is
\* recorded, and ledger calls were made for it, exactly in the studies in
\* which its author is a participant with a valid wallet and whose window
\* accepts the commit time; a skip for one study changes no record and issues
\* no ledger call, and the handler goes on to the next study.
C34_EvaluatedPerStudy ==
    /\ [](\A p \in Procs : \A a \in 1 .. Len(proc[p].found) :
            Finished(p) =>
                /\ Eligible(p, proc[p].found[a]) => Attended(p, proc[p].found[a])
                /\ (RecordOf(p, proc[p].found[a]) # {} \/ CallsOf(p, proc[p].found[a]) # {})
                      => Eligible(p, proc[p].found[a]))
    /\ [][\A p \in Procs :
            (Decides(p, "notParticipant") \/ Decides(p, "invalidWallet")
                \/ Decides(p, "outside")) =>
                /\ commitRecords' = commitRecords
                /\ ledger' = ledger
                /\ proc'[p].pc = IF proc[p].i < Len(proc[p].found)
                                 THEN "participant" ELSE "done"]_vars

(***************************************************************************)
(* Frame of a withdrawal (SpecWithdraw)                                    *)
(***************************************************************************)
\* a row belongs to the user and study of the request of slot s
OfRequest(s, row) == row.user_id = req[s].user /\ row.study_id = req[s].study

\* the rows of a table kept in insertion order that do not belong to the
\* request of slot s
OtherRows(s, rows) == SelectSeq(rows, LAMBDA r : ~OfRequest(s, r))

\* the step is one of the withdrawal that slot s handles
WithdrawalStep(s) == req[s].kind = "withdraw" /\ req'[s] # req[s]

\* the step is the one that leaves position pc of the withdrawal of slot s
WithdrawalLeaves(s, pc) == WithdrawalStep(s) /\ req[s].pc = pc

NothingWritten ==
    /\ userStudies' = userStudies
    /\ repositories' = repositories
    /\ commitRecords' = commitRecords
    /\ balances' = balances

\* C35: withdrawFromStudy(user, study) removes the membership row it found,
\* the repositories, the commit records and the balance of that user for that
\* study and nothing else: the rows of other users, and of the same user in
\* other studies, are as they were; when the user is not a participant of the
\* study it throws and no table is written.
C35_WithdrawalRemovesOnlyOwnRows ==
    /\ [][\A s \in Slots :
            WithdrawalStep(s) =>
                /\ {m \in userStudies' : ~OfRequest(s, m)} = {m \in userStudies : ~OfRequest(s, m)}
                /\ {b \in balances' : ~OfRequest(s, b)} = {b \in balances : ~OfRequest(s, b)}
                /\ OtherRows(s, repositories') = OtherRows(s, repositories)
                /\ OtherRows(s, commitRecords') = OtherRows(s, commitRecords)
                /\ userStudies' \subseteq userStudies
                /\ balances' \subseteq balances
                /\ Len(repositories') <= Len(repositories)
                /\ Len(commitRecords') <= Len(commitRecords)
                /\ studies' = studies /\ ledger' = ledger]_vars
    /\ [][\A s \in Slots :
            /\ WithdrawalLeaves(s, "remove") =>
                  /\ \E m \in req[s].found : OfRequest(s, m)
                  /\ req[s].found \cap userStudies' = {}
            /\ WithdrawalLeaves(s, "deleteRepositories") =>
                  OtherRows(s, repositories') = repositories'
            /\ WithdrawalLeaves(s, "deleteCommitRecords") =>
                  OtherRows(s, commitRecords') = commitRecords'
            /\ WithdrawalLeaves(s, "deleteBalances") =>
                  (req'[s].pc = "done" /\ ~\E b \in balances' : OfRequest(s, b))]_vars
    /\ [][\A s \in Slots :
            WithdrawalLeaves(s, "findOne") =>
                IF \E m \in userStudies : OfRequest(s, m)
                THEN req'[s].pc = "remove" /\ NothingWritten
                ELSE req'[s].pc = "failed" /\ NothingWritten]_vars
    /\ [][\A s \in Slots :
            WithdrawalLeaves(s, "failed") => (req'[s].pc = "idle" /\ NothingWritten)]_vars

\* user 1, who had attended study 1 and study 2 and had a balance in both,
\* has withdrawn from study 1: the rows for study 1 are gone, those for study 2
\* and the record of user 2 in study 1 are there
C35_Witness ==
    /\ req[1].kind = "withdraw" /\ req[1].pc = "done"
    /\ req[1].user = 1 /\ req[1].study = 1
    /\ \E k \in LedgerCalls("trackCommit") : ledger[k].study_id = 1 /\ ledger[k].wallet = 1
    /\ ~\E r \in 1 .. Len(commitRecords) :
          commitRecords[r].user_id = 1 /\ commitRecords[r].study_id = 1
    /\ \E r \in 1 .. Len(commitRecords) :
          commitRecords[r].user_id = 1 /\ commitRecords[r].study_id = 2
    /\ \E r \in 1 .. Len(commitRecords) :
          commitRecords[r].user_id = 2 /\ commitRecords[r].study_id = 1
    /\ \E b \in balances : b.user_id = 1 /\ b.study_id = 2
    /\ ~\E b \in balances : b.user_id = 1 /\ b.study_id = 1
    /\ \E b \in balances : b.user_id = 2 /\ b.study_id = 1
    /\ \E m \in userStudies : m.user_id = 1 /\ m.study_id = 2
    /\ ~\E m \in userStudies : m.user_id = 1 /\ m.study_id = 1
    /\ Len(repositories) = 1 /\ repositories[1].study_id = 2

(***************************************************************************)
(* Memberships over join requests (SpecMember)                             *)
(***************************************************************************)
\* the step is one of the join request that slot s handles
JoinStep(s) == req[s].kind = "join" /\ req'[s] # req[s]

\* C36: after any join requests there is at most one membership per (user,
\* study); a join of a user who is registered for the study writes nothing,
\* so the wallet address stored first stays; a join for a study that does not
\* exist throws and creates no membership.
C36_OneMembershipPerUserAndStudy ==
    /\ [](\A m, n \in userStudies :
            (m.user_id = n.user_id /\ m.study_id = n.study_id) => m = n)
    /\ [](\A m \in userStudies : m.study_id \in DOMAIN studies)
    /\ [][\A s \in Slots :
            JoinStep(s) =>
                /\ userStudies \subseteq userStudies'
                /\ (req[s].pc = "findOne" /\ FindUserStudy(userStudies, req[s].user,
                                                            req[s].study) # {})
                      => (req'[s].pc = "done" /\ userStudies' = userStudies)]_vars
    /\ [][\A s \in Slots :
            (req[s].pc = "idle" /\ req'[s].kind = "join"
                /\ req'[s].study \notin DOMAIN studies) =>
                (req'[s].pc = "failed" /\ userStudies' = userStudies)]_vars
====
